---------------------------- MODULE Spec2Model ----------------------------
(***************************************************************************)
(* A model of zcm, the Zabbix connection monitoring agent.                 *)
(*                                                                         *)
(*   - internal/zbx/zbx.go: the wire codec (decode, readHeader, encode)    *)
(*     and the connection server (ListenAndServe, handleConn);             *)
(*   - internal/monitoring/targets.go: LoadTargets and its validation of   *)
(*     the targets file, the polling loops of Targets.StartMonitoring and  *)
(*     the result store (a sync.Map);                                      *)
(*   - cmd/zcm/main.go: main and the query resolver itemHandler.           *)
(*                                                                         *)
(* Bytes are the integers 0..255 and a string is the sequence of its       *)
(* bytes (UTF-8, or not, where a string is not ASCII).  Time is the        *)
(* monotonic clock in nanoseconds.                                         *)
(***************************************************************************)
EXTENDS Integers, Sequences, FiniteSets, TLC

(***************************************************************************)
(* Constants of internal/zbx/zbx.go                                        *)
(***************************************************************************)
protocol == <<90, 66, 88, 68>>  \* "ZBXD"
flag == 1
protocolSize == 4
flagSize == 1
datalenSize == 4
reservedSize == 4

\* the length field of a response frame: make([]byte, 8)
responseLenSize == 8

\* agentResponse.Version and agentResponse.Variant as encode sets them
agentVersion == <<55, 46, 48, 46, 48>>  \* "7.0.0"
agentVariant == 2

\* JSON field names of serverRequest, serverRequestData, agentResponse
fieldRequest == <<114, 101, 113, 117, 101, 115, 116>>  \* "request"
fieldData == <<100, 97, 116, 97>>  \* "data"
fieldKey == <<107, 101, 121>>  \* "key"
fieldTimeout == <<116, 105, 109, 101, 111, 117, 116>>  \* "timeout"
fieldVersion == <<118, 101, 114, 115, 105, 111, 110>>  \* "version"
fieldVariant == <<118, 97, 114, 105, 97, 110, 116>>  \* "variant"
fieldValue == <<118, 97, 108, 117, 101>>  \* "value"

(***************************************************************************)
(* Little-endian integers (encoding/binary)                                *)
(***************************************************************************)
RECURSIVE PutUint(_, _)
\* binary.LittleEndian.PutUint64 (w = 8): the w low bytes of n, lowest first
PutUint(n, w) == IF w = 0 THEN <<>> ELSE <<n % 256>> \o PutUint(n \div 256, w - 1)

RECURSIVE UintAt(_, _)
UintAt(b, i) == IF i > Len(b) THEN 0 ELSE b[i] + 256 * UintAt(b, i + 1)

\* binary.LittleEndian.Uint32 / Uint64: the value of the bytes of b
Uint(b) == UintAt(b, 1)

(***************************************************************************)
(* encoding/json, for the documents the agent reads and writes.            *)
(* A JSON value is a record [t, n, s, a]: t its kind, n a number, s a      *)
(* string (or a boolean as 0/1 in n), a the elements of an array or the    *)
(* members [k, v] of an object in document order.  Numbers are integers    *)
(* (no fraction or exponent); text is a sequence of bytes, UTF-8 where it   *)
(* is valid.                                                               *)
(***************************************************************************)
JNull == [t |-> "null", n |-> 0, s |-> <<>>, a |-> <<>>]
JBool(x) == [t |-> "bool", n |-> IF x THEN 1 ELSE 0, s |-> <<>>, a |-> <<>>]
JNum(x) == [t |-> "num", n |-> x, s |-> <<>>, a |-> <<>>]
JStr(x) == [t |-> "str", n |-> 0, s |-> x, a |-> <<>>]
JArr(x) == [t |-> "arr", n |-> 0, s |-> <<>>, a |-> x]
JObj(x) == [t |-> "obj", n |-> 0, s |-> <<>>, a |-> x]

litNull == <<110, 117, 108, 108>>  \* "null"
litTrue == <<116, 114, 117, 101>>  \* "true"
litFalse == <<102, 97, 108, 115, 101>>  \* "false"
hexDigits == <<48, 49, 50, 51, 52, 53, 54, 55, 56, 57, 97, 98, 99, 100, 101, 102>>  \* "0123456789abcdef"

PFail == [ok |-> FALSE, pos |-> 0, val |-> JNull]
POk(p, v) == [ok |-> TRUE, pos |-> p, val |-> v]

IsSpace(c) == c \in {32, 9, 10, 13}
IsDigit(c) == c \in 48..57

RECURSIVE SkipWS(_, _)
SkipWS(b, i) == IF i <= Len(b) /\ IsSpace(b[i]) THEN SkipWS(b, i + 1) ELSE i

ParseLit(b, i, lit, v) ==
    IF i + Len(lit) - 1 <= Len(b) /\ SubSeq(b, i, i + Len(lit) - 1) = lit
    THEN POk(i + Len(lit), v)
    ELSE PFail

HexVal(c) ==
    IF IsDigit(c) THEN c - 48
    ELSE IF c \in 97..102 THEN c - 87
    ELSE IF c \in 65..70 THEN c - 55
    ELSE -1

\* the character a backslash escape stands for, -1 when it is no escape
Unescape(c) ==
    CASE c \in {34, 92, 47} -> c
      [] c = 98 -> 8
      [] c = 102 -> 12
      [] c = 110 -> 10
      [] c = 114 -> 13
      [] c = 116 -> 9
      [] OTHER -> -1

\* unicode/utf8: a continuation byte
IsCont(s, i) == i <= Len(s) /\ s[i] \in 128..191

\* utf8.DecodeRune at s[i] >= 0x80: the length of the encoding that starts
\* there, 0 when the bytes are no valid encoding (RuneError, width 1)
RuneLen(s, i) ==
    LET c == s[i] IN
    IF c \in 194..223 /\ IsCont(s, i + 1) THEN 2
    ELSE IF /\ c \in 224..239
            /\ IsCont(s, i + 1) /\ IsCont(s, i + 2)
            /\ (c = 224 => s[i + 1] >= 160)
            /\ (c = 237 => s[i + 1] <= 159)
         THEN 3
    ELSE IF /\ c \in 240..244
            /\ IsCont(s, i + 1) /\ IsCont(s, i + 2) /\ IsCont(s, i + 3)
            /\ (c = 240 => s[i + 1] >= 144)
            /\ (c = 244 => s[i + 1] <= 143)
         THEN 4
    ELSE 0

replacementChar == <<239, 191, 189>>  \* U+FFFD in UTF-8

\* utf8.EncodeRune
EncodeRune(r) ==
    IF r < 128 THEN <<r>>
    ELSE IF r < 2048 THEN <<192 + (r \div 64), 128 + (r % 64)>>
    ELSE IF r < 65536
         THEN <<224 + (r \div 4096), 128 + ((r \div 64) % 64), 128 + (r % 64)>>
    ELSE <<240 + (r \div 262144), 128 + ((r \div 4096) % 64),
           128 + ((r \div 64) % 64), 128 + (r % 64)>>

\* getu4: the value of the \uXXXX escape at b[j], -1 when there is none
GetU4(b, j) ==
    IF /\ j + 5 <= Len(b)
       /\ b[j] = 92
       /\ b[j + 1] = 117
       /\ \A d \in 2..5 : HexVal(b[j + d]) >= 0
    THEN HexVal(b[j + 2]) * 4096 + HexVal(b[j + 3]) * 256
         + HexVal(b[j + 4]) * 16 + HexVal(b[j + 5])
    ELSE -1

IsSurrogate(r) == r \in 55296..57343

\* a piece of a string literal: the bytes it stands for and where the next
\* piece starts
NoPiece == [ok |-> FALSE, bytes |-> <<>>, pos |-> 0]
Piece(bytes, pos) == [ok |-> TRUE, bytes |-> bytes, pos |-> pos]

\* the \uXXXX escape at b[j], r its value and r1 the value of a \uXXXX that
\* follows it (-1 when there is none).  A surrogate pair is one rune; a
\* surrogate without its pair is U+FFFD.
UnquoteU(j, r, r1) ==
    IF r < 0 THEN NoPiece
    ELSE IF ~IsSurrogate(r) THEN Piece(EncodeRune(r), j + 6)
    ELSE IF r < 56320 /\ r1 \in 56320..57343
    THEN Piece(EncodeRune(65536 + (r - 55296) * 1024 + (r1 - 56320)), j + 12)
    ELSE Piece(replacementChar, j + 6)

\* the rune at b[j] >= 0x80, n its length: bytes that are no valid UTF-8
\* are read as U+FFFD
UnquoteRune(b, j, n) ==
    IF n = 0 THEN Piece(replacementChar, j + 1) ELSE Piece(SubSeq(b, j, j + n - 1), j + n)

\* the two-character escape at b[j], c the character it stands for
UnquoteEscape(j, c) == IF c >= 0 THEN Piece(<<c>>, j + 2) ELSE NoPiece

\* the piece of the string literal at b[j], which is not its closing quote
UnquotePiece(b, j) ==
    IF b[j] < 32 THEN NoPiece
    ELSE IF b[j] >= 128 THEN UnquoteRune(b, j, RuneLen(b, j))
    ELSE IF b[j] # 92 THEN Piece(<<b[j]>>, j + 1)
    ELSE IF j + 1 > Len(b) THEN NoPiece
    ELSE IF b[j + 1] = 117 THEN UnquoteU(j, GetU4(b, j), GetU4(b, j + 6))
    ELSE UnquoteEscape(j, Unescape(b[j + 1]))

RECURSIVE StrBody(_, _, _)
RECURSIVE StrNext(_, _, _)
StrNext(b, acc, piece) ==
    IF piece.ok THEN StrBody(b, piece.pos, acc \o piece.bytes) ELSE PFail

\* the text of a string literal whose opening quote precedes b[j]
StrBody(b, j, acc) ==
    IF j > Len(b) THEN PFail
    ELSE IF b[j] = 34 THEN POk(j + 1, JStr(acc))
    ELSE StrNext(b, acc, UnquotePiece(b, j))

RECURSIVE DigitsEnd(_, _)
DigitsEnd(b, i) == IF i <= Len(b) /\ IsDigit(b[i]) THEN DigitsEnd(b, i + 1) ELSE i

RECURSIVE DigitsVal(_, _, _)
DigitsVal(b, i, j) == IF j < i THEN 0 ELSE DigitsVal(b, i, j - 1) * 10 + (b[j] - 48)

\* -?(0|[1-9][0-9]*)
ParseNumber(b, i) ==
    LET neg == b[i] = 45
        d == IF neg THEN i + 1 ELSE i
        e == DigitsEnd(b, d)
    IN  IF e = d THEN PFail
        ELSE IF b[d] = 48 /\ e > d + 1 THEN PFail
        ELSE POk(e, JNum(IF neg THEN 0 - DigitsVal(b, d, e - 1) ELSE DigitsVal(b, d, e - 1)))

RECURSIVE ParseValue(_, _)
RECURSIVE ParseElems(_, _, _)
RECURSIVE ParseMembers(_, _, _)

ParseValue(b, i0) ==
    LET i == SkipWS(b, i0) IN
    IF i > Len(b) THEN PFail
    ELSE CASE b[i] = 110 -> ParseLit(b, i, litNull, JNull)
           [] b[i] = 116 -> ParseLit(b, i, litTrue, JBool(TRUE))
           [] b[i] = 102 -> ParseLit(b, i, litFalse, JBool(FALSE))
           [] b[i] = 34 -> StrBody(b, i + 1, <<>>)
           [] b[i] = 45 \/ IsDigit(b[i]) -> ParseNumber(b, i)
           [] b[i] = 91 ->
                LET j == SkipWS(b, i + 1) IN
                IF j <= Len(b) /\ b[j] = 93 THEN POk(j + 1, JArr(<<>>))
                ELSE ParseElems(b, j, <<>>)
           [] b[i] = 123 ->
                LET j == SkipWS(b, i + 1) IN
                IF j <= Len(b) /\ b[j] = 125 THEN POk(j + 1, JObj(<<>>))
                ELSE ParseMembers(b, j, <<>>)
           [] OTHER -> PFail

ParseElems(b, i, acc) ==
    LET v == ParseValue(b, i) IN
    IF ~v.ok THEN PFail
    ELSE LET j == SkipWS(b, v.pos) IN
         IF j > Len(b) THEN PFail
         ELSE IF b[j] = 44 THEN ParseElems(b, j + 1, Append(acc, v.val))
         ELSE IF b[j] = 93 THEN POk(j + 1, JArr(Append(acc, v.val)))
         ELSE PFail

ParseMembers(b, i0, acc) ==
    LET i == SkipWS(b, i0) IN
    IF i > Len(b) \/ b[i] # 34 THEN PFail
    ELSE LET k == StrBody(b, i + 1, <<>>) IN
         IF ~k.ok THEN PFail
         ELSE LET c == SkipWS(b, k.pos) IN
              IF c > Len(b) \/ b[c] # 58 THEN PFail
              ELSE LET v == ParseValue(b, c + 1) IN
                   IF ~v.ok THEN PFail
                   ELSE LET j == SkipWS(b, v.pos)
                            m == Append(acc, [k |-> k.val.s, v |-> v.val])
                        IN  IF j > Len(b) THEN PFail
                            ELSE IF b[j] = 44 THEN ParseMembers(b, j + 1, m)
                            ELSE IF b[j] = 125 THEN POk(j + 1, JObj(m))
                            ELSE PFail

\* a whole document: one value, white space around it and nothing else
JsonParse(b) ==
    LET v == ParseValue(b, 1) IN
    IF v.ok /\ SkipWS(b, v.pos) = Len(b) + 1 THEN v ELSE PFail


(***************************************************************************)
(* json.Unmarshal into a serverRequest (zbx.go:24-32).  A type mismatch    *)
(* (an UnmarshalTypeError) leaves the field alone and is reported as the   *)
(* error; a JSON null leaves a scalar alone and sets a slice to nil;       *)
(* unknown members are skipped; names match without regard to case.        *)
(***************************************************************************)
ToLower(c) == IF c \in 65..90 THEN c + 32 ELSE c
Fold(s) == [i \in 1..Len(s) |-> ToLower(s[i])]

serverRequestData == [err |-> FALSE, Key |-> <<>>, Timeout |-> 0]
serverRequest == [err |-> FALSE, Request |-> <<>>, Data |-> <<>>]

RECURSIVE unmarshalDataMembers(_, _, _)
unmarshalDataMembers(ms, i, acc) ==
    IF i > Len(ms) THEN acc
    ELSE LET k == Fold(ms[i].k)
             v == ms[i].v
         IN  unmarshalDataMembers(ms, i + 1,
               IF k = fieldKey
               THEN CASE v.t = "str" -> [acc EXCEPT !.Key = v.s]
                      [] v.t = "null" -> acc
                      [] OTHER -> [acc EXCEPT !.err = TRUE]
               ELSE IF k = fieldTimeout
               THEN CASE v.t = "num" -> [acc EXCEPT !.Timeout = v.n]
                      [] v.t = "null" -> acc
                      [] OTHER -> [acc EXCEPT !.err = TRUE]
               ELSE acc)

unmarshalDataElem(v) ==
    CASE v.t = "obj" -> unmarshalDataMembers(v.a, 1, serverRequestData)
      [] v.t = "null" -> serverRequestData
      [] OTHER -> [serverRequestData EXCEPT !.err = TRUE]

unmarshalData(v) == [i \in 1..Len(v.a) |-> unmarshalDataElem(v.a[i])]

RECURSIVE unmarshalMembers(_, _, _)
unmarshalMembers(ms, i, acc) ==
    IF i > Len(ms) THEN acc
    ELSE LET k == Fold(ms[i].k)
             v == ms[i].v
         IN  unmarshalMembers(ms, i + 1,
               IF k = fieldRequest
               THEN CASE v.t = "str" -> [acc EXCEPT !.Request = v.s]
                      [] v.t = "null" -> acc
                      [] OTHER -> [acc EXCEPT !.err = TRUE]
               ELSE IF k = fieldData
               THEN CASE v.t = "arr" ->
                           LET d == unmarshalData(v) IN
                           [acc EXCEPT !.Data = d,
                                       !.err = acc.err \/ \E j \in 1..Len(d) : d[j].err]
                      [] v.t = "null" -> [acc EXCEPT !.Data = <<>>]
                      [] OTHER -> [acc EXCEPT !.err = TRUE]
               ELSE acc)

\* json.Unmarshal(b, req) with req a fresh serverRequest
jsonUnmarshal(b) ==
    LET p == JsonParse(b) IN
    IF ~p.ok THEN [serverRequest EXCEPT !.err = TRUE]
    ELSE CASE p.val.t = "obj" -> unmarshalMembers(p.val.a, 1, serverRequest)
           [] p.val.t = "null" -> serverRequest
           [] OTHER -> [serverRequest EXCEPT !.err = TRUE]

(***************************************************************************)
(* json.Marshal of an agentResponse (zbx.go:34-42).  A value handed to     *)
(* encode is nil, an integer or a string: [t, i, s].                       *)
(***************************************************************************)
Nil == [t |-> "nil", i |-> 0, s |-> <<>>]
IntV(n) == [t |-> "int", i |-> n, s |-> <<>>]
StrV(x) == [t |-> "str", i |-> 0, s |-> x]

RECURSIVE Digits(_)
Digits(n) == IF n < 10 THEN <<48 + n>> ELSE Append(Digits(n \div 10), 48 + (n % 10))

\* strconv: the decimal text of an integer
Itoa(n) == IF n < 0 THEN <<45>> \o Digits(0 - n) ELSE Digits(n)

\* an escaping that leaves the backslash and the control characters alone
EscapeCharQuoteOnly(c) == IF c = 34 THEN <<92, 34>> ELSE <<c>>

\* the JSON text of one character of a string (HTML-safe escaping is on)
EscapeChar(c) ==
    CASE c = 34 -> <<92, 34>>
      [] c = 92 -> <<92, 92>>
      [] c = 10 -> <<92, 110>>
      [] c = 13 -> <<92, 114>>
      [] c = 9 -> <<92, 116>>
      [] c < 32 \/ c \in {60, 62, 38} ->
           <<92, 117, 48, 48, hexDigits[(c \div 16) + 1], hexDigits[(c % 16) + 1]>>
      [] OTHER -> <<c>>

escapedReplacement == <<92, 117, 102, 102, 102, 100>>  \* backslash-ufffd
lineSeparators == {<<226, 128, 168>>, <<226, 128, 169>>}  \* U+2028, U+2029

\* the JSON text of the rune at s[i] >= 0x80, n its length: bytes that are
\* no valid UTF-8 are written backslash-ufffd, U+2028 and U+2029 are escaped, every
\* other rune is copied
EscapeRune(s, i, n) ==
    IF n = 0 THEN escapedReplacement
    ELSE IF SubSeq(s, i, i + n - 1) \in lineSeparators
         THEN <<92, 117, 50, 48, 50, hexDigits[(s[i + 2] % 16) + 1]>>
    ELSE SubSeq(s, i, i + n - 1)

RECURSIVE EscapeFrom(_, _)
RECURSIVE EscapeNext(_, _, _)
\* the JSON text of s from the rune at s[i] >= 0x80 on, n the rune's length
EscapeNext(s, i, n) ==
    EscapeRune(s, i, n) \o EscapeFrom(s, i + (IF n = 0 THEN 1 ELSE n))

EscapeFrom(s, i) ==
    IF i > Len(s) THEN <<>>
    ELSE IF s[i] < 128 THEN EscapeChar(s[i]) \o EscapeFrom(s, i + 1)
    ELSE EscapeNext(s, i, RuneLen(s, i))

Quote(s) == <<34>> \o EscapeFrom(s, 1) \o <<34>>

\* the JSON text of an interface{} value
marshalValue(v) ==
    CASE v.t = "nil" -> litNull
      [] v.t = "int" -> Itoa(v.i)
      [] v.t = "str" -> Quote(v.s)

\* "name":
Member(name) == Quote(name) \o <<58>>

\* json.Marshal(agentResponse{Version, Variant, Data: [{Value: value}]})
jsonMarshal(version, variant, value) ==
    <<123>> \o Member(fieldVersion) \o Quote(version)
    \o <<44>> \o Member(fieldVariant) \o Itoa(variant)
    \o <<44>> \o Member(fieldData)
    \o <<91, 123>> \o Member(fieldValue) \o marshalValue(value) \o <<125, 93>>
    \o <<125>>

(***************************************************************************)
(* encode (zbx.go:161-182)                                                 *)
(***************************************************************************)
\* an encode whose length field counts the whole frame, header included
encodeFrameLength(value) ==
    LET jsonData == jsonMarshal(agentVersion, agentVariant, value)
        dataLen == PutUint(Len(protocol) + flagSize + responseLenSize + Len(jsonData),
                           responseLenSize)
    IN  protocol \o <<flag>> \o dataLen \o jsonData

\* the frame written for a value: tag, flag, 8-byte little-endian length, JSON
encode(value) ==
    LET jsonData == jsonMarshal(agentVersion, agentVariant, value)
        dataLen == PutUint(Len(jsonData), responseLenSize)
    IN  protocol \o <<flag>> \o dataLen \o jsonData

(***************************************************************************)
(* readHeader and decode (zbx.go:100-159).  The reader is the byte stream  *)
(* s the client sent before closing its side, and pos the bytes consumed   *)
(* so far.  One Read into a buffer of cap bytes returns between 1 and cap  *)
(* of the bytes left, as many as have arrived (n asks for that many), and  *)
(* 0 with io.EOF when none is left.                                        *)
(***************************************************************************)
Min(a, b) == IF a < b THEN a ELSE b

\* r.Read(buf): the bytes read, in a buffer of cap bytes that starts zeroed
Read(s, pos, n, cap) ==
    LET got == Min(Min(n, cap), Len(s) - pos) IN
    [n |-> got,
     buf |-> [i \in 1..cap |-> IF i <= got THEN s[pos + i] ELSE 0],
     pos |-> pos + got]

\* the size of the buffer readHeader allocates for a read of `size` bytes
readHeaderBufSize(size) == protocolSize

readHeader(s, pos, n, size) ==
    LET r == Read(s, pos, n, readHeaderBufSize(size)) IN
    [err |-> r.n < size, buf |-> r.buf, pos |-> r.pos]

decodeError(pos) == [err |-> TRUE, req |-> serverRequest, pos |-> pos]

\* headerProtocol != protocol
protocolMismatch(b) == b # protocol

\* a flag check that only rejects a zero flag
flagMismatchZeroOnly(b) == b[1] = 0

\* headerFlag != flag
flagMismatch(b) == b[1] # flag

\* ns[i] is the number of bytes the i-th Read of the connection finds arrived
decode(s, ns) ==
    LET h1 == readHeader(s, 0, ns[1], protocolSize) IN
    IF h1.err THEN decodeError(h1.pos)
    ELSE IF protocolMismatch(h1.buf) THEN decodeError(h1.pos)
    ELSE LET h2 == readHeader(s, h1.pos, ns[2], flagSize) IN
    IF h2.err THEN decodeError(h2.pos)
    ELSE IF flagMismatch(h2.buf) THEN decodeError(h2.pos)
    ELSE LET h3 == readHeader(s, h2.pos, ns[3], datalenSize) IN
    IF h3.err THEN decodeError(h3.pos)
    ELSE LET dataLen == Uint(h3.buf)
             h4 == readHeader(s, h3.pos, ns[4], reservedSize)
         IN
    IF h4.err THEN decodeError(h4.pos)
    ELSE LET h5 == readHeader(s, h4.pos, ns[5], dataLen) IN
    IF h5.err THEN decodeError(h5.pos)
    ELSE LET req == jsonUnmarshal(h5.buf) IN
         [err |-> req.err, req |-> req, pos |-> h5.pos]


(***************************************************************************)
(* The program: main (cmd/zcm/main.go), Targets.StartMonitoring and its    *)
(* polling loops (targets.go), ListenAndServe and handleConn (zbx.go).     *)
(***************************************************************************)

\* the configured targets "a" and "b" (the keys of Targets.inner)
TargetNames == {<<97>>, <<98>>}

\* bounds of the model
MaxTicks == 2
MaxConns == 2
MaxAcceptErrors == 10

\* time.Millisecond, in nanoseconds
Millisecond == 1000000

\* the resolution of the model's clock: half a millisecond
Tick == Millisecond \div 2
MaxTime == MaxTicks * Tick

\* time.Duration.Milliseconds: whole milliseconds, truncated
Milliseconds(d) == d \div Millisecond

paramResponseTime == <<114, 101, 115, 112, 111, 110, 115, 101, 84, 105, 109, 101>>  \* "responseTime"
paramStatusCode == <<115, 116, 97, 116, 117, 115, 67, 111, 100, 101>>  \* "statusCode"
paramStatus == <<115, 116, 97, 116, 117, 115>>  \* "status"
Dot == 46

\* what client.Do can return: a response, an error without a response (a
\* network error, the client's timeout), or both (a redirect the client's
\* policy refuses: the last response comes back with the error)
Status200 == <<50, 48, 48, 32, 79, 75>>  \* "200 OK"
Status302 == <<51, 48, 50, 32, 70, 111, 117, 110, 100>>  \* "302 Found"
Response(code, status) == [res |-> TRUE, err |-> FALSE, StatusCode |-> code, Status |-> status]
NoResponse == [res |-> FALSE, err |-> TRUE, StatusCode |-> 0, Status |-> <<>>]
Outcomes ==
    { Response(200, Status200), NoResponse,
      [Response(302, Status302) EXCEPT !.err = TRUE] }

\* targetData{} (targets.go:40-47); the zero time.Time is written 0
targetData ==
    [Start |-> 0, Running |-> FALSE, LastResponseTime |-> 0,
     LastStatus |-> <<>>, LastStatusCode |-> 0]

(***************************************************************************)
(* The targets file and LoadTargets (targets.go:22-159).  A target is a    *)
(* targetInfo record; text is a sequence of bytes; form-data is nil or a   *)
(* sequence of <<key, value>> pairs in key order.                          *)
(***************************************************************************)
methodGet == <<71, 69, 84>>  \* "GET"
methodPost == <<80, 79, 83, 84>>  \* "POST"
defaultInterval == 10000

authorization == [Type |-> <<>>, Username |-> <<>>, Password |-> <<>>, Token |-> <<>>]

noFormData == [nil |-> TRUE, kv |-> <<>>]
FormData(kv) == [nil |-> FALSE, kv |-> kv]

targetInfo ==
    [Url |-> <<>>, Authorization |-> authorization, Interval |-> 0,
     Method |-> <<>>, FormData |-> noFormData, Json |-> <<>>]

\* strings.ToUpper, on ASCII
ToUpperChar(c) == IF c \in 97..122 THEN c - 32 ELSE c
ToUpper(s) == [i \in 1..Len(s) |-> ToUpperChar(s[i])]

isHTTPMethodSupported(method) == method = methodGet \/ method = methodPost

RECURSIVE CompactFrom(_, _, _)
\* the bytes json.Compact keeps: everything but the white space between tokens
CompactFrom(b, i, inString) ==
    IF i > Len(b) THEN <<>>
    ELSE IF inString
    THEN IF b[i] = 92 /\ i < Len(b)
         THEN <<b[i], b[i + 1]>> \o CompactFrom(b, i + 2, TRUE)
         ELSE <<b[i]>> \o CompactFrom(b, i + 1, b[i] # 34)
    ELSE IF IsSpace(b[i]) THEN CompactFrom(b, i + 1, FALSE)
    ELSE <<b[i]>> \o CompactFrom(b, i + 1, b[i] = 34)

\* json.Compact(buf, []byte(v.Json))
jsonCompact(b) == [err |-> ~JsonParse(b).ok, out |-> CompactFrom(b, 1, FALSE)]

\* the environment of the process: P is set to "8", nothing else is
Environ == [name \in {<<80>>} |-> <<56>>]
Getenv(name) == IF name \in DOMAIN Environ THEN Environ[name] ELSE <<>>

envOpen == <<123, 101, 110, 118, 58>>  \* "{env:"
IsNameStart(c) == c \in 65..90 \/ c \in 97..122 \/ c = 95
IsNameChar(c) == IsNameStart(c) \/ IsDigit(c)

RECURSIVE NameEnd(_, _)
NameEnd(s, i) == IF i <= Len(s) /\ IsNameChar(s[i]) THEN NameEnd(s, i + 1) ELSE i

\* where the match of {env:([a-zA-Z_]{1}[a-zA-Z_0-9]*)} that starts at s[i]
\* ends, 0 when none starts there
MatchEnd(s, i) ==
    IF /\ i + Len(envOpen) <= Len(s)
       /\ SubSeq(s, i, i + Len(envOpen) - 1) = envOpen
       /\ IsNameStart(s[i + Len(envOpen)])
       /\ NameEnd(s, i + Len(envOpen)) <= Len(s)
       /\ s[NameEnd(s, i + Len(envOpen))] = 125
    THEN NameEnd(s, i + Len(envOpen))
    ELSE 0

\* the name in the match that ends at s[e] and starts at s[i]
NameIn(s, i, e) == SubSeq(s, i + Len(envOpen), e - 1)

RECURSIVE EnvMissingFrom(_, _)
\* whether a match from s[i] on names a variable that is not set
EnvMissingFrom(s, i) ==
    IF i > Len(s) THEN FALSE
    ELSE IF MatchEnd(s, i) = 0 THEN EnvMissingFrom(s, i + 1)
    ELSE Getenv(NameIn(s, i, MatchEnd(s, i))) = <<>> \/ EnvMissingFrom(s, MatchEnd(s, i) + 1)

RECURSIVE ReplaceFrom(_, _)
\* s from s[i] on with every match replaced by its variable's value
ReplaceFrom(s, i) ==
    IF i > Len(s) THEN <<>>
    ELSE IF MatchEnd(s, i) = 0 THEN <<s[i]>> \o ReplaceFrom(s, i + 1)
    ELSE Getenv(NameIn(s, i, MatchEnd(s, i))) \o ReplaceFrom(s, MatchEnd(s, i) + 1)

\* replaceWithEnvVar(&value): every {env:NAME} replaced by the variable's
\* value, an error when a variable is not set (the values set hold no
\* placeholder themselves)
replaceWithEnvVar(value) ==
    [err |-> EnvMissingFrom(value, 1), value |-> ReplaceFrom(value, 1)]

\* lines 70-72
prepareInterval(v) ==
    IF v.Interval = 0 THEN [v EXCEPT !.Interval = defaultInterval] ELSE v

\* lines 78-85
prepareMethod(v) ==
    IF v.Method = <<>> THEN [v EXCEPT !.Method = methodGet]
    ELSE [v EXCEPT !.Method = ToUpper(v.Method)]

\* a check of the body fields that only wants one of them to be there
bodyRejectedWhenNeither(v) ==
    /\ v.Method = methodPost
    /\ \/ v.Json = <<>> /\ v.FormData.nil
       \/ v.Json # <<>> /\ jsonCompact(v.Json).err

\* lines 87-103: the body fields of a POST target
bodyRejected(v) ==
    /\ v.Method = methodPost
    /\ \/ v.Json = <<>> /\ v.FormData.nil
       \/ v.Json # <<>> /\ ~v.FormData.nil
       \/ v.Json # <<>> /\ jsonCompact(v.Json).err

prepareBody(v) ==
    IF v.Method = methodPost /\ v.Json # <<>>
    THEN [v EXCEPT !.Json = jsonCompact(v.Json).out]
    ELSE v

\* a check of the authorization that lets a token stand next to a username
\* or a password
authorizationRejectedWithoutMix(auth) ==
    /\ auth # authorization
    /\ \/ auth.Type = <<>>
       \/ auth.Token = <<>> /\ (auth.Username = <<>> \/ auth.Password = <<>>)

\* lines 105-117
authorizationRejected(auth) ==
    /\ auth # authorization
    /\ \/ auth.Type = <<>>
       \/ auth.Token # <<>> /\ (auth.Username # <<>> \/ auth.Password # <<>>)
       \/ auth.Token = <<>> /\ (auth.Username = <<>> \/ auth.Password = <<>>)

\* lines 119-137
envRejected(v) ==
    \/ replaceWithEnvVar(v.Url).err
    \/ replaceWithEnvVar(v.Authorization.Token).err
    \/ replaceWithEnvVar(v.Authorization.Password).err
    \/ replaceWithEnvVar(v.Authorization.Username).err
    \/ replaceWithEnvVar(v.Authorization.Type).err

prepareEnv(v) ==
    [v EXCEPT !.Url = replaceWithEnvVar(v.Url).value,
              !.Authorization =
                  [Type |-> replaceWithEnvVar(v.Authorization.Type).value,
                   Username |-> replaceWithEnvVar(v.Authorization.Username).value,
                   Password |-> replaceWithEnvVar(v.Authorization.Password).value,
                   Token |-> replaceWithEnvVar(v.Authorization.Token).value]]

\* the body of the loop of checkAndPrepareTargets on one target: whether it
\* returns an error, and the target as it leaves it
checkTarget(v) ==
    LET withInterval == prepareInterval(v)
        withMethod == prepareMethod(withInterval)
    IN  IF v.Url = <<>> THEN [err |-> TRUE, v |-> withInterval]
        ELSE IF ~isHTTPMethodSupported(withMethod.Method) THEN [err |-> TRUE, v |-> withMethod]
        ELSE IF bodyRejected(withMethod) THEN [err |-> TRUE, v |-> withMethod]
        ELSE IF authorizationRejected(v.Authorization)
             THEN [err |-> TRUE, v |-> prepareBody(withMethod)]
        ELSE IF envRejected(v) THEN [err |-> TRUE, v |-> prepareBody(withMethod)]
        ELSE [err |-> FALSE, v |-> prepareEnv(prepareBody(withMethod))]

\* a validation that gives up only when no target is left to monitor
checkAndPrepareTargetsLenient(tm) ==
    [err |-> \A k \in DOMAIN tm : checkTarget(tm[k]).err,
     tm |-> [k \in DOMAIN tm |-> checkTarget(tm[k]).v]]

\* an error as soon as one target is rejected, whatever the order of the range
checkAndPrepareTargets(tm) ==
    [err |-> \E k \in DOMAIN tm : checkTarget(tm[k]).err,
     tm |-> [k \in DOMAIN tm |-> checkTarget(tm[k]).v]]

\* url.Parse, called by http.NewRequest, for the urls of the model: it
\* rejects a control character and a host that opens "[" without "]"
urlParseOk(u) ==
    /\ \A i \in 1..Len(u) : u[i] >= 32 /\ u[i] # 127
    /\ \A i \in 1..Len(u) : u[i] = 91 => \E j \in (i + 1)..Len(u) : u[j] = 93

\* whether http.NewRequest(target.Method, target.Url, body) returns a request
newRequestOk(v) == urlParseOk(v.Url)

\* url.Values.Encode for keys and values without reserved characters
RECURSIVE formEncode(_, _)
formEncode(kv, i) ==
    IF i > Len(kv) THEN <<>>
    ELSE (IF i > 1 THEN <<38>> ELSE <<>>) \o kv[i][1] \o <<61>> \o kv[i][2]
         \o formEncode(kv, i + 1)

contentTypeForm == <<102, 111, 114, 109>>  \* stands for "application/x-www-form-urlencoded"
contentTypeJson == <<106, 115, 111, 110>>  \* stands for "application/json"
noBody == [has |-> FALSE, bytes |-> <<>>, contentType |-> <<>>]

\* lines 181-200: the body and content type of the request
requestBody(v) ==
    IF v.Method = methodPost
    THEN IF ~v.FormData.nil
         THEN [has |-> TRUE, bytes |-> formEncode(v.FormData.kv, 1),
               contentType |-> contentTypeForm]
         ELSE IF v.Json # <<>>
         THEN [has |-> TRUE, bytes |-> v.Json, contentType |-> contentTypeJson]
         ELSE noBody
    ELSE noBody

\* targets as LoadTargets returns them
urlGood == <<104, 116, 116, 112, 58, 47, 47, 120>>  \* "http://x"
urlUnparsable == <<104, 116, 116, 112, 58, 47, 47, 91, 58, 58, 49>>  \* "http://[::1"
baseTarget == [targetInfo EXCEPT !.Url = urlGood]
LoadedTargets ==
    {checkTarget([baseTarget EXCEPT !.Url = u]).v : u \in {urlGood, urlUnparsable}}

VARIABLES
    proc,      \* "running", or "panic" once an unrecovered panic ended the process
    mainPc,    \* main: "loaded" (LoadTargets returned), "monitoring" (go
               \* StartMonitoring done), "serving" (the listener is open)
    inner,     \* the targets of the file, and Targets.inner once LoadTargets returned
    data,      \* Targets.data, the sync.Map: a function on the stored names
    pc,        \* per target, its polling goroutine: "none", "build", "inflight", "sleep"
    now,       \* the monotonic clock
    hist,      \* per target, what its loop did last (observation only)
    conn,      \* per connection: its state and what handleConn did on it
    q,         \* the call of the dispatch function made by the last step, if any
    enc,       \* a call of encode on its own: the value and the bytes returned
    dec,       \* a call of decode on its own: the frame, how it arrived, the result
    srv        \* ListenAndServe's accept loop: tempDelay and what it did last

vars == <<proc, mainPc, inner, data, pc, now, hist, conn, q, enc, dec, srv>>

ConnIds == 1..MaxConns

NoQuery == [asked |-> FALSE, key |-> <<>>, value |-> Nil, at |-> 0, seen |-> -1]
NoEnc == [done |-> FALSE, value |-> Nil, bytes |-> <<>>]
NoConn == [st |-> "none", frame |-> 0, out |-> "", calls |-> 0, key |-> <<>>, written |-> <<>>]
NoHist ==
    [dispatched |-> 0, completed |-> FALSE, ok |-> FALSE, last |-> NoResponse,
     took |-> 0, seen |-> -1, body |-> noBody, slept |-> FALSE, wait |-> 0]
NoDec == [done |-> FALSE, frame |-> 0, ns |-> <<>>, err |-> FALSE, pos |-> 0, req |-> serverRequest]
\* ListenAndServe's tempDelay, and what its accept loop did (observation
\* only): the failures since the last accepted connection, the failures in
\* all, the sleep of the last l.Accept, and the error it returned with
NoSrv == [tempDelay |-> 0, streak |-> 0, errors |-> 0, slept |-> 0, ret |-> "none"]

Init ==
    /\ proc = "running"
    /\ mainPc = "loaded"
    /\ inner \in [TargetNames -> LoadedTargets]
    /\ data = <<>>
    /\ pc = [t \in TargetNames |-> "none"]
    /\ now = 0
    /\ hist = [t \in TargetNames |-> NoHist]
    /\ conn = [c \in ConnIds |-> NoConn]
    /\ q = NoQuery
    /\ enc = NoEnc
    /\ dec = NoDec
    /\ srv = NoSrv

(***************************************************************************)
(* The result store (targets.go:161-164, 262-270)                          *)
(***************************************************************************)
\* a store that replaces every entry of the map
StoreEverywhere(m, key, value) == [k \in DOMAIN m \cup {key} |-> value]

\* t.data.Store(key, value)
Store(m, key, value) == [k \in DOMAIN m \cup {key} |-> IF k = key THEN value ELSE m[k]]

\* Targets.GetData
GetData(m, key) ==
    IF key \in DOMAIN m THEN [ok |-> TRUE, data |-> m[key]]
    ELSE [ok |-> FALSE, data |-> targetData]

(***************************************************************************)
(* itemHandler (cmd/zcm/main.go:34-74).  now1 and now2 are its two readings  *)
(* of the clock.                                                           *)
(***************************************************************************)
\* the index of the first "." instead of the last one
IndexOfFirst(s, c) ==
    LET at == {i \in 1..Len(s) : s[i] = c} IN
    IF at = {} THEN -1 ELSE (CHOOSE i \in at : \A j \in at : i <= j) - 1

\* strings.LastIndex(s, "."), an index from 0, -1 when s holds no "."
LastIndex(s, c) ==
    LET at == {i \in 1..Len(s) : s[i] = c} IN
    IF at = {} THEN -1 ELSE (CHOOSE i \in at : \A j \in at : j <= i) - 1

\* data.Running && v < time.Since(data.Start).Milliseconds()
probeOutlastsLast(d, now1) ==
    d.Running /\ Milliseconds(d.LastResponseTime) < Milliseconds(now1 - d.Start)

\* a responseTime that answers the last completed probe's time even while
\* a probe is in flight
responseTimeOfLastProbe(d, now1, now2) == Milliseconds(d.LastResponseTime)

\* the value the "responseTime" case computes
responseTime(d, now1, now2) ==
    IF probeOutlastsLast(d, now1)
    THEN Milliseconds(now2 - d.Start)
    ELSE Milliseconds(d.LastResponseTime)

itemHandler(m, key, now1, now2) ==
    LET sep == LastIndex(key, Dot) IN
    IF sep = -1 THEN Nil
    ELSE LET itemKey == SubSeq(key, 1, sep)
             param == SubSeq(key, sep + 2, Len(key))
             got == GetData(m, itemKey)
         IN  IF got.ok
             THEN CASE param = paramResponseTime ->
                         IntV(responseTime(got.data, now1, now2))
                    [] param = paramStatusCode -> IntV(got.data.LastStatusCode)
                    [] param = paramStatus -> StrV(got.data.LastStatus)
                    [] OTHER -> Nil
             ELSE Nil


(***************************************************************************)
(* Requests a client may send.  A frame is tag, flag, length, reserved     *)
(* bytes and payload; the client may also stop short of a whole frame.     *)
(***************************************************************************)
requestPassive == <<112, 97, 115, 115, 105, 118, 101, 32, 99, 104, 101, 99, 107, 115>>  \* "passive checks"
paramUnknown == <<120>>  \* "x"
nameUnknown == <<122>>  \* "z"
badProtocol == <<90, 66, 88, 69>>  \* "ZBXE"
badFlag == flag + 1

ItemKey(name, param) == name \o <<Dot>> \o param

\* {"key":K,"timeout":3}
reqElem(key) ==
    <<123>> \o Member(fieldKey) \o Quote(key) \o <<44>> \o Member(fieldTimeout) \o <<51, 125>>

RECURSIVE reqElems(_, _)
reqElems(keys, i) ==
    IF i > Len(keys) THEN <<>>
    ELSE (IF i > 1 THEN <<44>> ELSE <<>>) \o reqElem(keys[i]) \o reqElems(keys, i + 1)

\* {"request":"passive checks","data":[...]}, what a Zabbix server sends
reqJson(keys) ==
    <<123>> \o Member(fieldRequest) \o Quote(requestPassive) \o <<44>>
    \o Member(fieldData) \o <<91>> \o reqElems(keys, 1) \o <<93, 125>>

\* {"data":[{"key":K}]}
reqShort(key) ==
    <<123>> \o Member(fieldData) \o <<91, 123>> \o Member(fieldKey) \o Quote(key)
    \o <<125, 93, 125>>

Frame(tag, fl, len, reserved, payload) ==
    tag \o <<fl>> \o PutUint(len, datalenSize) \o reserved \o payload

Request(payload) == Frame(protocol, flag, Len(payload), <<0, 0, 0, 0>>, payload)

aStatus == ItemKey(<<97>>, paramStatus)
aStatusCode == ItemKey(<<97>>, paramStatusCode)
aResponseTime == ItemKey(<<97>>, paramResponseTime)
bStatus == ItemKey(<<98>>, paramStatus)
bStatusCode == ItemKey(<<98>>, paramStatusCode)
bResponseTime == ItemKey(<<98>>, paramResponseTime)

Frames ==
    << Request(reqJson(<<aStatus>>)),
       Request(reqShort(bStatusCode)),
       Request(<<32, 10>> \o reqShort(aResponseTime)),
       Request(reqJson(<<bResponseTime, aStatus>>)),
       Frame(protocol, flag, Len(reqShort(bStatus)), <<1, 2, 3, 4>>, reqShort(bStatus)),
       Request(reqShort(<<97>>)),
       Request(reqShort(ItemKey(nameUnknown, paramStatus))),
       Request(reqShort(ItemKey(<<97>>, paramUnknown))),
       Frame(badProtocol, flag, Len(reqShort(aStatus)), <<0, 0, 0, 0>>, reqShort(aStatus)),
       Frame(badProtocol, flag, 4, <<0, 0, 0, 0>>, litNull),
       Frame(protocol, badFlag, Len(reqShort(aStatus)), <<0, 0, 0, 0>>, reqShort(aStatus)),
       Frame(protocol, badFlag, 4, <<0, 0, 0, 0>>, litNull),
       Frame(protocol, 0, 7, <<0, 0, 0, 0>>, <<32, 32, 32>> \o litNull),
       Frame(protocol, flag, Len(reqShort(aStatus)), <<0, 0, 0, 0>>,
             SubSeq(reqShort(aStatus), 1, 10)),
       SubSeq(Request(reqShort(aStatus)), 1, 7),
       Request(SubSeq(reqShort(aStatus), 1, 9)),
       Request(<<91, 49, 93>>),
       Request(<<123>> \o Member(fieldData) \o <<91, 93, 125>>),
       Request(<<123, 125>>),
       Request(<<123, 125, 32, 32>>),
       Request(litNull),
       Request(<<32, 32, 32>> \o litNull) >>

FrameIds == 1..Len(Frames)

\* the numbers of bytes the five Reads of decode may find arrived
Arrivals == [1..5 -> 1..protocolSize]

\* every result decode can have on a frame, over the ways it can arrive
decodeResults == [f \in FrameIds |-> {decode(Frames[f], ns) : ns \in Arrivals}]


(***************************************************************************)
(* main (cmd/zcm/main.go:14-32).  Init is the state after LoadTargets      *)
(* returned the targets.                                                   *)
(***************************************************************************)
\* go targets.StartMonitoring()
GoStartMonitoring ==
    /\ proc = "running"
    /\ mainPc = "loaded"
    /\ mainPc' = "monitoring"
    /\ q' = NoQuery
    /\ UNCHANGED <<proc, inner, data, pc, now, hist, conn, enc, dec, srv>>

\* zbx.ListenAndServe: net.Listen opens the listener, or fails and main
\* ends the process with log.Fatal
Listen ==
    /\ proc = "running"
    /\ mainPc = "monitoring"
    /\ \E ok \in BOOLEAN :
         /\ mainPc' = IF ok THEN "serving" ELSE "fatal"
         /\ proc' = IF ok THEN proc ELSE "exit"
    /\ q' = NoQuery
    /\ UNCHANGED <<inner, data, pc, now, hist, conn, enc, dec, srv>>

(***************************************************************************)
(* Targets.StartMonitoring (targets.go:166-260)                            *)
(***************************************************************************)
\* one iteration of the range over t.inner: store the zero targetData and
\* start the target's goroutine (lines 169-173)
StoreAndSpawn(t) ==
    /\ proc = "running"
    /\ mainPc \in {"monitoring", "serving"}
    /\ pc[t] = "none"
    /\ data' = Store(data, t, targetData)
    /\ pc' = [pc EXCEPT ![t] = "build"]
    /\ q' = NoQuery
    /\ UNCHANGED <<proc, mainPc, inner, now, hist, conn, enc, dec, srv>>

\* a mark that leaves the start time as it was
markRunningKeepStart(d, at) == [d EXCEPT !.Running = TRUE]

\* lines 221-225: the record stored before the request is issued
markRunning(d, at) == [d EXCEPT !.Start = at, !.Running = TRUE]

\* a status update that keeps the previous status when the request failed
recordStatusKeepOnError(d, o) ==
    IF o.res
    THEN [d EXCEPT !.LastStatus = o.Status, !.LastStatusCode = o.StatusCode]
    ELSE d

\* lines 236-242: the status of the response, or the zero status after an
\* error without a response
recordStatus(d, o) ==
    IF o.res
    THEN [d EXCEPT !.LastStatus = o.Status, !.LastStatusCode = o.StatusCode]
    ELSE IF o.err
    THEN [d EXCEPT !.LastStatus = <<>>, !.LastStatusCode = 0]
    ELSE d

\* a record of the outcome stored before the status fields are set
recordOutcomeWithoutStatus(d, o, at) ==
    [d EXCEPT !.LastResponseTime = at - d.Start, !.Running = FALSE]

\* a record of the outcome that times the probe from the zero time
recordOutcomeSinceZero(d, o, at) ==
    recordStatus([d EXCEPT !.LastResponseTime = at, !.Running = FALSE], o)

\* lines 231-245: the record stored after client.Do returned o
recordOutcome(d, o, at) ==
    recordStatus([d EXCEPT !.LastResponseTime = at - d.Start, !.Running = FALSE], o)

\* lines 181-227: build the request, mark the target in flight, call
\* client.Do.  http.NewRequest's error is dropped: with a url it rejects,
\* req is nil and its first use panics.
Dispatch(t) ==
    /\ proc = "running"
    /\ pc[t] = "build"
    /\ q' = NoQuery
    /\ IF newRequestOk(inner[t])
       THEN /\ data' = IF GetData(data, t).ok
                       THEN Store(data, t, markRunning(GetData(data, t).data, now))
                       ELSE data
            /\ pc' = [pc EXCEPT ![t] = "inflight"]
            /\ hist' = [hist EXCEPT ![t].dispatched = now, ![t].seen = -1,
                                    ![t].body = requestBody(inner[t]),
                                    ![t].slept = FALSE, ![t].wait = 0]
            /\ UNCHANGED proc
       ELSE /\ proc' = "panic"
            /\ UNCHANGED <<data, pc, hist>>
    /\ UNCHANGED <<mainPc, inner, now, conn, enc, dec, srv>>

\* lines 227-245: client.Do returns o and the outcome is recorded
Complete(t) ==
    /\ proc = "running"
    /\ pc[t] = "inflight"
    /\ q' = NoQuery
    /\ \E o \in Outcomes :
         /\ data' = IF GetData(data, t).ok
                    THEN Store(data, t, recordOutcome(GetData(data, t).data, o, now))
                    ELSE data
         /\ hist' = [hist EXCEPT ![t].completed = TRUE, ![t].last = o,
                                 ![t].ok = hist[t].ok \/ o.res,
                                 ![t].took = now - hist[t].dispatched,
                                 ![t].seen = -1]
    /\ pc' = [pc EXCEPT ![t] = "sleep"]
    /\ UNCHANGED <<proc, mainPc, inner, now, conn, enc, dec, srv>>

\* lines 247-254: the body is drained or the error logged, and time.Sleep
\* waits target.Interval milliseconds (hist[t].wait) and returns; the model
\* does not tie its clock to the interval: the sleep may end at any moment
Sleep(t) ==
    /\ proc = "running"
    /\ pc[t] = "sleep"
    /\ pc' = [pc EXCEPT ![t] = "build"]
    /\ hist' = [hist EXCEPT ![t].slept = TRUE, ![t].wait = inner[t].Interval]
    /\ q' = NoQuery
    /\ UNCHANGED <<proc, mainPc, inner, data, now, conn, enc, dec, srv>>

\* the clock advances
TickClock ==
    /\ proc = "running"
    /\ now < MaxTime
    /\ now' = now + Tick
    /\ q' = NoQuery
    /\ UNCHANGED <<proc, mainPc, inner, data, pc, hist, conn, enc, dec, srv>>

(***************************************************************************)
(* The dispatch function is called with key; the clock moves by d between  *)
(* the handler's two readings of it, when it reads it twice.  hist[t].seen *)
(* keeps the largest responseTime answered since t's probe was dispatched. *)
(***************************************************************************)
\* whether itemHandler reaches its second time.Since (main.go:52)
readsClockTwice(m, key, now1) ==
    LET sep == LastIndex(key, Dot) IN
    /\ sep # -1
    /\ SubSeq(key, sep + 2, Len(key)) = paramResponseTime
    /\ GetData(m, SubSeq(key, 1, sep)).ok
    /\ probeOutlastsLast(GetData(m, SubSeq(key, 1, sep)).data, now1)

\* a dispatch function that answers only while no probe is in flight
AnswerWhenIdle(key, d) ==
    LET value == itemHandler(data, key, now, now + d) IN
    /\ \A t \in TargetNames : pc[t] # "inflight"
    /\ now + d <= MaxTime
    /\ d = 0 \/ readsClockTwice(data, key, now)
    /\ now' = now + d
    /\ q' = [asked |-> TRUE, key |-> key, value |-> value, at |-> now, seen |-> -1]
    /\ UNCHANGED hist

Answer(key, d) ==
    LET value == itemHandler(data, key, now, now + d) IN
    /\ now + d <= MaxTime
    /\ d = 0 \/ readsClockTwice(data, key, now)
    /\ now' = now + d
    /\ q' = [asked |-> TRUE, key |-> key, value |-> value, at |-> now,
             seen |-> IF \E t \in TargetNames : key = ItemKey(t, paramResponseTime)
                      THEN hist[SubSeq(key, 1, 1)].seen ELSE -1]
    /\ hist' = [t \in TargetNames |->
                  IF /\ key = ItemKey(t, paramResponseTime)
                     /\ pc[t] = "inflight"
                     /\ value.t = "int"
                     /\ value.i > hist[t].seen
                  THEN [hist[t] EXCEPT !.seen = value.i]
                  ELSE hist[t]]

\* the item keys a Zabbix server may ask for
Keys ==
    {ItemKey(t, p) : t \in TargetNames,
                     p \in {paramResponseTime, paramStatusCode, paramStatus}}
    \cup {<<97>>, ItemKey(nameUnknown, paramStatus), ItemKey(<<97>>, paramUnknown)}

\* a query reaches the dispatch function itemHandler(targets)
Query ==
    /\ proc = "running"
    /\ mainPc = "serving"
    /\ \E key \in Keys, d \in {0, Tick} : Answer(key, d)
    /\ UNCHANGED <<proc, mainPc, inner, data, pc, conn, enc, dec, srv>>

(***************************************************************************)
(* ListenAndServe and handleConn (zbx.go:44-98)                            *)
(***************************************************************************)
\* an accept loop that calls handleConn itself and accepts again only
\* once it returned
AcceptAfterReturn(c) ==
    /\ proc = "running"
    /\ mainPc = "serving"
    /\ conn[c].st = "none"
    /\ \A b \in ConnIds : b < c => conn[b].st = "closed"
    /\ conn' = [conn EXCEPT ![c].st = "accepted"]
    /\ q' = NoQuery
    /\ srv' = [srv EXCEPT !.streak = 0, !.slept = 0]
    /\ UNCHANGED <<proc, mainPc, inner, data, pc, now, hist, enc, dec>>

\* l.Accept() returns connection c and handleConn is started on it
Accept(c) ==
    /\ proc = "running"
    /\ mainPc = "serving"
    /\ conn[c].st = "none"
    /\ \A b \in ConnIds : b < c => conn[b].st # "none"
    /\ conn' = [conn EXCEPT ![c].st = "accepted"]
    /\ q' = NoQuery
    /\ srv' = [srv EXCEPT !.streak = 0, !.slept = 0]
    /\ UNCHANGED <<proc, mainPc, inner, data, pc, now, hist, enc, dec>>

\* time.Second, in nanoseconds
Second == 1000 * Millisecond

\* lines 61-68: tempDelay after one more failed l.Accept
nextTempDelay(tempDelay) ==
    LET grown == IF tempDelay = 0 THEN 5 * Millisecond ELSE tempDelay * 2
    IN  IF grown > 1 * Second THEN 1 * Second ELSE grown

\* l.Accept returns an error (lines 56-72): net.ErrClosed makes
\* ListenAndServe return it, and main ends the process on it
\* (main.go:29-31); after any other error the loop sleeps tempDelay and
\* calls l.Accept again.  Nothing sets tempDelay back to 0.
AcceptError ==
    /\ proc = "running"
    /\ mainPc = "serving"
    /\ srv.errors < MaxAcceptErrors
    /\ \E closed \in BOOLEAN :
         IF closed
         THEN /\ srv' = [srv EXCEPT !.errors = @ + 1, !.slept = 0, !.ret = "closed"]
              /\ mainPc' = "fatal"
              /\ proc' = "exit"
         ELSE /\ srv' = [srv EXCEPT !.tempDelay = nextTempDelay(@),
                                    !.streak = @ + 1,
                                    !.errors = @ + 1,
                                    !.slept = nextTempDelay(srv.tempDelay)]
              /\ UNCHANGED <<proc, mainPc>>
    /\ q' = NoQuery
    /\ UNCHANGED <<inner, data, pc, now, hist, conn, enc, dec>>

Closed(f, out, calls, key, written) ==
    [st |-> "closed", frame |-> f, out |-> out, calls |-> calls, key |-> key,
     written |-> written]

\* a handleConn that returns on decode's error without closing
handleConnOpenOnError(c, f, r) ==
    /\ conn' = [conn EXCEPT ![c] = [Closed(f, "decode error", 0, <<>>, <<>>) EXCEPT !.st = "open"]]
    /\ q' = NoQuery
    /\ UNCHANGED <<proc, now, hist>>

\* handleConn on connection c, whose client sent Frames[f] and decode
\* returned r.  req.Data[0] of an empty Data is an index out of range: a
\* panic nothing recovers, which ends the process (after the deferred
\* conn.Close).
handleConn(c, f, r) ==
    IF r.err
    THEN /\ conn' = [conn EXCEPT ![c] = Closed(f, "decode error", 0, <<>>, <<>>)]
         /\ q' = NoQuery
         /\ UNCHANGED <<proc, now, hist>>
    ELSE IF Len(r.req.Data) = 0
    THEN /\ conn' = [conn EXCEPT ![c] = Closed(f, "panic", 0, <<>>, <<>>)]
         /\ proc' = "panic"
         /\ q' = NoQuery
         /\ UNCHANGED <<now, hist>>
    ELSE \E d \in {0, Tick}, written \in BOOLEAN :
           LET key == r.req.Data[1].Key
               encodedValue == encode(itemHandler(data, key, now, now + d))
           IN  /\ Answer(key, d)
               /\ conn' = [conn EXCEPT ![c] =
                             IF written
                             THEN Closed(f, "responded", 1, key, encodedValue)
                             ELSE Closed(f, "write error", 1, key, <<>>)]
               /\ UNCHANGED proc

HandleConn(c) ==
    /\ proc = "running"
    /\ conn[c].st = "accepted"
    /\ \E f \in FrameIds : \E r \in decodeResults[f] : handleConn(c, f, r)
    /\ UNCHANGED <<mainPc, inner, data, pc, enc, dec, srv>>

Next ==
    \/ GoStartMonitoring
    \/ Listen
    \/ \E t \in TargetNames : StoreAndSpawn(t)
    \/ \E t \in TargetNames : Dispatch(t)
    \/ \E t \in TargetNames : Complete(t)
    \/ \E t \in TargetNames : Sleep(t)
    \/ TickClock
    \/ Query
    \/ \E c \in ConnIds : Accept(c)
    \/ AcceptError
    \/ \E c \in ConnIds : HandleConn(c)

Spec == Init /\ [][Next]_vars


(***************************************************************************)
(* The two sides of the program on their own: the polling loops with the   *)
(* queries that read their results, and the connection server.             *)
(***************************************************************************)
NextMonitor ==
    \/ GoStartMonitoring
    \/ Listen
    \/ \E t \in TargetNames : StoreAndSpawn(t)
    \/ \E t \in TargetNames : Dispatch(t)
    \/ \E t \in TargetNames : Complete(t)
    \/ \E t \in TargetNames : Sleep(t)
    \/ TickClock
    \/ Query

SpecMonitor == Init /\ [][NextMonitor]_vars

NextServer ==
    \/ GoStartMonitoring
    \/ Listen
    \/ \E t \in TargetNames : StoreAndSpawn(t)
    \/ \E c \in ConnIds : Accept(c)
    \/ \E c \in ConnIds : HandleConn(c)

SpecServer == Init /\ [][NextServer]_vars


\* everything but the clock and the queries: both sides can end the process
NextProcess ==
    \/ GoStartMonitoring
    \/ Listen
    \/ \E t \in TargetNames : StoreAndSpawn(t)
    \/ \E t \in TargetNames : Dispatch(t)
    \/ \E t \in TargetNames : Complete(t)
    \/ \E t \in TargetNames : Sleep(t)
    \/ \E c \in ConnIds : Accept(c)
    \/ \E c \in ConnIds : HandleConn(c)

SpecProcess == Init /\ [][NextProcess]_vars

\* the polling loops, the queries, and connections whose handlers wait for
\* bytes that never come; the clock stands still
NextShared ==
    \/ GoStartMonitoring
    \/ Listen
    \/ \E t \in TargetNames : StoreAndSpawn(t)
    \/ \E t \in TargetNames : Dispatch(t)
    \/ \E t \in TargetNames : Complete(t)
    \/ \E t \in TargetNames : Sleep(t)
    \/ Query
    \/ \E c \in ConnIds : Accept(c)

SpecShared == Init /\ [][NextShared]_vars

\* the accept loop and the outcomes of l.Accept, without the handlers
NextAccept ==
    \/ GoStartMonitoring
    \/ Listen
    \/ \E c \in ConnIds : Accept(c)
    \/ AcceptError

SpecAccept == Init /\ [][NextAccept]_vars

(***************************************************************************)
(* main from its first line (cmd/zcm/main.go:14-18): the targets file is   *)
(* unreadable ("nofile"), is no YAML map of targets ("notyaml"), or holds  *)
(* the targets inner ("start").                                            *)
(***************************************************************************)
typeBasic == <<66, 97, 115, 105, 99>>  \* "Basic"
textUser == <<117>>  \* "u"
textPassword == <<112>>  \* "p"
textToken == <<116>>  \* "t"
envSet == <<123, 101, 110, 118, 58, 80, 125>>  \* "{env:P}"
envUnset == <<123, 101, 110, 118, 58, 81, 125>>  \* "{env:Q}"
urlEnvSet == <<104, 116, 116, 112, 58, 47, 47>> \o envSet  \* "http://{env:P}"
urlEnvUnset == <<104, 116, 116, 112, 58, 47, 47>> \o envUnset  \* "http://{env:Q}"
methodLowerGet == <<103, 101, 116>>  \* "get"
methodLowerPost == <<112, 111, 115, 116>>  \* "post"
methodPut == <<80, 85, 84>>  \* "PUT"
jsonSpaced == <<123, 32, 34, 75, 34, 58, 32, 49, 32, 125>>  \* { "K": 1 }
jsonCut == <<123>>  \* {
formOne == FormData(<< <<<<107>>, <<118>>>> >>)  \* key: val
negativeInterval == 0 - 5
shortInterval == 250

\* the targets a file may hold: the base target with its method and body
\* fields, its interval, its authorization, or its url set in every way
MethodConfigs ==
    {[baseTarget EXCEPT !.Method = m, !.FormData = f, !.Json = j] :
        m \in {<<>>, methodGet, methodLowerGet, methodPost, methodLowerPost, methodPut},
        f \in {noFormData, FormData(<<>>), formOne},
        j \in {<<>>, jsonSpaced, jsonCut}}

IntervalConfigs ==
    {[baseTarget EXCEPT !.Interval = i] : i \in {negativeInterval, 0, shortInterval}}

AuthorizationConfigs ==
    {[baseTarget EXCEPT !.Authorization =
          [Type |-> ty, Username |-> u, Password |-> pw, Token |-> tk]] :
        ty \in {<<>>, typeBasic, envUnset},
        u \in {<<>>, textUser},
        pw \in {<<>>, textPassword},
        tk \in {<<>>, textToken, envSet}}

UrlConfigs ==
    {[baseTarget EXCEPT !.Url = u] :
        u \in {<<>>, urlGood, urlEnvSet, urlEnvUnset, urlUnparsable}}

Configs == MethodConfigs \cup IntervalConfigs \cup AuthorizationConfigs \cup UrlConfigs

InitLoad ==
    /\ proc = "running"
    /\ mainPc \in {"start", "nofile", "notyaml"}
    /\ \E a \in Configs, b \in {baseTarget, targetInfo} :
         inner = [t \in TargetNames |-> IF t = <<97>> THEN a ELSE b]
    /\ data = <<>>
    /\ pc = [t \in TargetNames |-> "none"]
    /\ now = 0
    /\ hist = [t \in TargetNames |-> NoHist]
    /\ conn = [c \in ConnIds |-> NoConn]
    /\ q = NoQuery
    /\ enc = NoEnc
    /\ dec = NoDec
    /\ srv = NoSrv

\* targets, err := monitoring.LoadTargets(...); on an error log.Fatal ends
\* the process (the targets stay as the file holds them)
LoadTargets ==
    /\ proc = "running"
    /\ mainPc \in {"start", "nofile", "notyaml"}
    /\ IF mainPc = "start" /\ ~checkAndPrepareTargets(inner).err
       THEN /\ inner' = checkAndPrepareTargets(inner).tm
            /\ mainPc' = "loaded"
            /\ UNCHANGED proc
       ELSE /\ proc' = "exit"
            /\ UNCHANGED <<mainPc, inner>>
    /\ q' = NoQuery
    /\ UNCHANGED <<data, pc, now, hist, conn, enc, dec, srv>>

NextLoad ==
    \/ LoadTargets
    \/ GoStartMonitoring
    \/ Listen
    \/ \E t \in TargetNames : StoreAndSpawn(t)
    \/ \E t \in TargetNames : Dispatch(t)
    \/ \E t \in TargetNames : Complete(t)
    \/ \E t \in TargetNames : Sleep(t)
    \/ \E c \in ConnIds : Accept(c)

SpecLoad == InitLoad /\ [][NextLoad]_vars

(***************************************************************************)
(* encode on its own, applied to the values a dispatch function returns:   *)
(* nil, integers, strings.                                                 *)
(***************************************************************************)
MaxInt == 120

textHtml == <<60, 97, 38, 98, 62>>  \* "<a&b>"
textQuoted == <<34, 92, 10, 9>>  \* a quote, a backslash, a line feed, a tab

textLatin == <<50, 48, 48, 32, 195, 169>>  \* "200 " and U+00E9
textSeparator == <<226, 128, 168>>  \* U+2028
textInvalid == <<50, 48, 48, 32, 255>>  \* "200 " and the byte 0xFF
textCut == <<195>>  \* the first byte of a two-byte rune

Values ==
    {Nil} \cup {IntV(n) : n \in (0 - MaxInt)..MaxInt}
    \cup {StrV(s) : s \in {<<>>, Status200, Status302, textHtml, textQuoted,
                           textLatin, textSeparator, textInvalid, textCut}}

Encode ==
    /\ ~enc.done
    /\ \E v \in Values : enc' = [done |-> TRUE, value |-> v, bytes |-> encode(v)]
    /\ UNCHANGED <<proc, mainPc, inner, data, pc, now, hist, conn, q, dec, srv>>

SpecEncode == Init /\ [][Encode]_vars

(***************************************************************************)
(* The dispatch function on its own (main.go:34-74), with targets whose    *)
(* names hold dots: every set of these targets is loaded, each with a      *)
(* record of its own in the store, and the function is called once.        *)
(***************************************************************************)
nameA == <<97>>  \* "a"
nameAStatus == ItemKey(nameA, paramStatus)  \* "a.status"
nameApi == <<97, 112, 105>>  \* "api"
nameApiV1 == ItemKey(nameApi, <<118, 49>>)  \* "api.v1"
DottedNames == {nameA, nameAStatus, nameApi, nameApiV1}

\* the record of a probe of target name that its loop stored: each target
\* has its own duration, status line and status code
recordOf(name) ==
    [targetData EXCEPT !.LastResponseTime = Len(name) * Millisecond,
                       !.LastStatus = Status200 \o name,
                       !.LastStatusCode = 200 + Len(name)]

ResolveKeys ==
    {ItemKey(n, p) : n \in DottedNames,
                     p \in {paramResponseTime, paramStatusCode, paramStatus}}
    \cup DottedNames
    \cup {paramStatus, ItemKey(<<>>, paramStatus), ItemKey(nameApi, <<>>),
          ItemKey(nameApiV1, paramUnknown)}

InitResolve ==
    /\ proc = "running"
    /\ mainPc = "serving"
    /\ \E names \in SUBSET DottedNames :
         /\ inner = [t \in names |-> baseTarget]
         /\ data = [t \in names |-> recordOf(t)]
         /\ pc = [t \in names |-> "sleep"]
         /\ hist = [t \in names |-> NoHist]
    /\ now = 0
    /\ conn = [c \in ConnIds |-> NoConn]
    /\ q = NoQuery
    /\ enc = NoEnc
    /\ dec = NoDec
    /\ srv = NoSrv

Resolve ==
    /\ ~q.asked
    /\ \E key \in ResolveKeys :
         q' = [asked |-> TRUE, key |-> key, value |-> itemHandler(data, key, now, now),
               at |-> now, seen |-> -1]
    /\ UNCHANGED <<proc, mainPc, inner, data, pc, now, hist, conn, enc, dec, srv>>

SpecResolve == InitResolve /\ [][Resolve]_vars

(***************************************************************************)
(* decode on its own (zbx.go:117-159): one call on the bytes of a frame,   *)
(* which its five Reads find arrived ns[1], ..., ns[5] bytes at a time.     *)
(***************************************************************************)
decodeCalls == [f \in FrameIds |-> [ns \in Arrivals |-> decode(Frames[f], ns)]]

\* dec once decode returned r for frame f arriving as ns
Decoded(f, ns, r) ==
    [done |-> TRUE, frame |-> f, ns |-> ns, err |-> r.err, pos |-> r.pos, req |-> r.req]

Decode ==
    /\ ~dec.done
    /\ \E f \in FrameIds, ns \in Arrivals : dec' = Decoded(f, ns, decodeCalls[f][ns])
    /\ UNCHANGED <<proc, mainPc, inner, data, pc, now, hist, conn, q, enc, srv>>

SpecDecode == Init /\ [][Decode]_vars


(***************************************************************************)
(* The wire format as the claims state it, read off the bytes of a frame   *)
(* (not through decode).                                                   *)
(***************************************************************************)
headerSize == protocolSize + flagSize + datalenSize + reservedSize
responseHeaderSize == protocolSize + flagSize + responseLenSize

TagOf(s) == SubSeq(s, 1, protocolSize)
FlagOf(s) == s[protocolSize + 1]
LengthOf(s) == Uint(SubSeq(s, protocolSize + flagSize + 1, protocolSize + flagSize + datalenSize))
PayloadOf(s) == SubSeq(s, headerSize + 1, Len(s))

BadTag(s) == Len(s) >= protocolSize /\ TagOf(s) # protocol
BadFlag(s) == Len(s) > protocolSize /\ TagOf(s) = protocol /\ FlagOf(s) # flag

\* tag, flag, length L, reserved bytes and exactly L bytes of payload
WholeFrame(s) ==
    /\ Len(s) >= headerSize
    /\ TagOf(s) = protocol
    /\ FlagOf(s) = flag
    /\ Len(s) = headerSize + LengthOf(s)

\* a whole frame whose payload is a JSON request with a data element
WellFormedRequest(s) ==
    /\ WholeFrame(s)
    /\ ~jsonUnmarshal(PayloadOf(s)).err
    /\ Len(jsonUnmarshal(PayloadOf(s)).Data) >= 1

\* the key of the first data element of a well-formed request
FirstKey(s) == jsonUnmarshal(PayloadOf(s)).Data[1].Key

\* good tag and flag, but a payload that is cut short, is no JSON, or is
\* JSON without a data element
BadPayload(s) ==
    /\ Len(s) >= headerSize
    /\ TagOf(s) = protocol
    /\ FlagOf(s) = flag
    /\ ~WellFormedRequest(s)

RECURSIVE ToValidUTF8From(_, _)
ToValidUTF8From(s, i) ==
    IF i > Len(s) THEN <<>>
    ELSE IF s[i] < 128 THEN <<s[i]>> \o ToValidUTF8From(s, i + 1)
    ELSE IF RuneLen(s, i) = 0 THEN replacementChar \o ToValidUTF8From(s, i + 1)
    ELSE SubSeq(s, i, i + RuneLen(s, i) - 1) \o ToValidUTF8From(s, i + RuneLen(s, i))

\* s with every byte that is no valid UTF-8 replaced by U+FFFD
ToValidUTF8(s) == ToValidUTF8From(s, 1)

\* the value a response frame carries, as a JSON value; JSON text is UTF-8,
\* so a string is carried as valid UTF-8
JsonOf(v) ==
    CASE v.t = "nil" -> JNull
      [] v.t = "int" -> JNum(v.i)
      [] v.t = "str" -> JStr(ToValidUTF8(v.s))

docPrefix == <<123, 34, 118, 101, 114, 115, 105, 111, 110, 34, 58, 34, 55, 46, 48, 46, 48, 34, 44, 34, 118, 97, 114, 105, 97, 110, 116, 34, 58, 50, 44, 34, 100, 97, 116, 97, 34, 58, 91, 123, 34, 118, 97, 108, 117, 101, 34, 58>>  \* {"version":"7.0.0","variant":2,"data":[{"value":
docSuffix == <<125, 93, 125>>  \* }]}

\* w is "ZBXD", 0x01, the 8-byte little-endian length of the document, and
\* the document {"version":"7.0.0","variant":2,"data":[{"value":V}]}
ResponseFrameOf(w, v) ==
    LET doc == SubSeq(w, responseHeaderSize + 1, Len(w))
        val == SubSeq(doc, Len(docPrefix) + 1, Len(doc) - Len(docSuffix))
    IN  /\ Len(w) >= responseHeaderSize + Len(docPrefix) + Len(docSuffix)
        /\ SubSeq(w, 1, protocolSize) = protocol
        /\ w[protocolSize + 1] = 1
        /\ Uint(SubSeq(w, protocolSize + flagSize + 1, responseHeaderSize)) = Len(doc)
        /\ Len(w) = 13 + Len(doc)
        /\ SubSeq(doc, 1, Len(docPrefix)) = docPrefix
        /\ SubSeq(doc, Len(doc) - Len(docSuffix) + 1, Len(doc)) = docSuffix
        /\ JsonParse(val).ok
        /\ JsonParse(val).val = JsonOf(v)

WellFormedResponse(w) ==
    \E v \in {Nil} \cup {IntV(n) : n \in 0..Milliseconds(MaxTime)}
             \cup {IntV(o.StatusCode) : o \in Outcomes}
             \cup {StrV(o.Status) : o \in Outcomes} : ResponseFrameOf(w, v)

ClosedConns == {c \in ConnIds : conn[c].st = "closed"}

(***************************************************************************)
(* C1: on every connection whose client sent a complete well-formed        *)
(* request frame, handleConn writes exactly one well-formed response frame *)
(* before it closes the connection.                                        *)
(***************************************************************************)
C1_WellFormedRequestAnswered ==
    \A c \in ClosedConns :
        WellFormedRequest(Frames[conn[c].frame])
        => /\ conn[c].out = "responded"
           /\ conn[c].calls = 1
           /\ WellFormedResponse(conn[c].written)

(***************************************************************************)
(* C2: a frame with a tag other than "ZBXD", or with that tag and a flag   *)
(* other than 0x01, makes decode fail: the dispatch function is not        *)
(* called, no byte is written and the connection is closed, the same in    *)
(* both cases.                                                             *)
(***************************************************************************)
C2_BadTagOrFlagRejected ==
    \A c \in ClosedConns :
        BadTag(Frames[conn[c].frame]) \/ BadFlag(Frames[conn[c].frame])
        => conn[c] = Closed(conn[c].frame, "decode error", 0, <<>>, <<>>)

C2_Witness ==
    \E c, d \in ClosedConns :
        /\ BadTag(Frames[conn[c].frame])
        /\ BadFlag(Frames[conn[d].frame])
        /\ conn[c].out = "decode error"
        /\ conn[d].out = "decode error"

(***************************************************************************)
(* C3: a request whose payload is cut short, is no JSON, or is JSON        *)
(* without a data element aborts only its own connection: nothing is       *)
(* written on it and the process keeps running.                            *)
(***************************************************************************)
C3_BadPayloadAbortsOnlyConnection ==
    \A c \in ClosedConns :
        BadPayload(Frames[conn[c].frame])
        => /\ conn[c].out = "decode error"
           /\ conn[c].written = <<>>
           /\ proc = "running"

(***************************************************************************)
(* C7: a key without ".", a key of an unknown target and a key with an     *)
(* unknown parameter are each answered with a well-formed response frame   *)
(* that carries null.                                                      *)
(***************************************************************************)
SoftFailureKeys ==
    {<<97>>, ItemKey(nameUnknown, paramStatus), ItemKey(<<97>>, paramUnknown)}

C7_SoftFailureAnsweredNull ==
    \A c \in ClosedConns :
        /\ WellFormedRequest(Frames[conn[c].frame])
        /\ FirstKey(Frames[conn[c].frame]) \in SoftFailureKeys
        => /\ conn[c].out = "responded"
           /\ ResponseFrameOf(conn[c].written, Nil)

(***************************************************************************)
(* What the queries of the polling side are compared with: hist[t] keeps   *)
(* when t's current probe was dispatched, the outcome of its last          *)
(* completed probe and how long that probe took.                           *)
(***************************************************************************)
Max(a, b) == IF a > b THEN a ELSE b

Asked(t, param) == q.asked /\ q.key = ItemKey(t, param)

(***************************************************************************)
(* C4: from the moment the server accepts connections until a target's     *)
(* first probe completes, a query for its statusCode returns 0 and a query *)
(* for its status returns the empty string, never null.                    *)
(***************************************************************************)
C4_ZeroUntilFirstProbe ==
    \A t \in TargetNames :
        ~hist[t].completed
        => /\ Asked(t, paramStatusCode) => q.value = IntV(0)
           /\ Asked(t, paramStatus) => q.value = StrV(<<>>)

(***************************************************************************)
(* C5: while a target's probe is in flight, a responseTime query returns   *)
(* the greater of the last probe's duration and the time since the probe   *)
(* started, both in whole milliseconds (the time since the start taken at  *)
(* one of the handler's two readings of the clock); it is never smaller    *)
(* than an earlier answer of the same in-flight span, and never smaller    *)
(* than the probe's elapsed time when the handler was called.              *)
(***************************************************************************)
C5_InFlightResponseTime ==
    \A t \in TargetNames :
        Asked(t, paramResponseTime) /\ pc[t] = "inflight"
        => LET last == Milliseconds(hist[t].took)
               early == Milliseconds(q.at - hist[t].dispatched)
               late == Milliseconds(now - hist[t].dispatched)
           IN  /\ q.value.t = "int"
               /\ q.value.i \in {Max(last, early), Max(last, late)}
               /\ q.value.i >= q.seen
               /\ q.value.i >= early

\* a second query of an in-flight span, answered with more than the first
C5_Witness ==
    \E t \in TargetNames :
        /\ Asked(t, paramResponseTime)
        /\ pc[t] = "inflight"
        /\ q.seen >= 0
        /\ q.value = IntV(q.seen + 1)
        /\ q.value.i > Milliseconds(hist[t].took)

(***************************************************************************)
(* C6: after a target's probe completed with a response of status code C   *)
(* and status line S in D whole milliseconds, and while no newer probe of  *)
(* the target is in flight, statusCode returns C, status returns S and     *)
(* responseTime returns D.                                                 *)
(***************************************************************************)
C6_CompletedProbeReported ==
    \A t \in TargetNames :
        hist[t].completed /\ hist[t].last.res /\ pc[t] # "inflight"
        => /\ Asked(t, paramStatusCode) => q.value = IntV(hist[t].last.StatusCode)
           /\ Asked(t, paramStatus) => q.value = StrV(hist[t].last.Status)
           /\ Asked(t, paramResponseTime) => q.value = IntV(Milliseconds(hist[t].took))

\* a probe dispatched after the start that took a whole millisecond
C6_Witness ==
    \E t \in TargetNames :
        /\ hist[t].completed
        /\ hist[t].last = Response(200, Status200)
        /\ pc[t] # "inflight"
        /\ hist[t].took = Millisecond
        /\ Asked(t, paramResponseTime)
        /\ q.value = IntV(1)

(***************************************************************************)
(* C8: after a probe of a target ended without a response, statusCode      *)
(* returns 0 and status returns the empty string until a later probe       *)
(* obtains a response, also when an earlier probe had obtained one.        *)
(***************************************************************************)
C8_FailedProbeReportsZero ==
    \A t \in TargetNames :
        hist[t].completed /\ ~hist[t].last.res
        => /\ Asked(t, paramStatusCode) => q.value = IntV(0)
           /\ Asked(t, paramStatus) => q.value = StrV(<<>>)

\* a failed probe after one that had obtained a response
C8_Witness ==
    \E t \in TargetNames :
        /\ hist[t].completed
        /\ ~hist[t].last.res
        /\ hist[t].ok
        /\ Asked(t, paramStatusCode)
        /\ q.value = IntV(0)

(***************************************************************************)
(* C9: a target's polling loop never stops: once started, no probe cycle   *)
(* and nothing else in the program ends it with a panic of the process.    *)
(***************************************************************************)
C9_LoopNeverStops ==
    \A t \in TargetNames : pc[t] # "none" => proc # "panic"

(***************************************************************************)
(* C10: the encoded response for a value V is "ZBXD", the byte 0x01, the   *)
(* 8-byte little-endian length of the JSON document, and the document      *)
(* {"version":"7.0.0","variant":2,"data":[{"value":V}]}: 13 bytes plus the *)
(* document.                                                               *)
(***************************************************************************)
C10_EncodedFrame == enc.done => ResponseFrameOf(enc.bytes, enc.value)

\* a string whose JSON form needs escapes
C10_Witness ==
    /\ enc.done
    /\ enc.value = StrV(textQuoted)
    /\ Len(enc.bytes) > responseHeaderSize + Len(docPrefix) + Len(docSuffix) + Len(textQuoted)

(***************************************************************************)
(* The value a client reads from a response frame: it parses the payload   *)
(* and takes data[0].value.                                                *)
(***************************************************************************)
RECURSIVE MemberFrom(_, _, _)
MemberFrom(ms, name, i) ==
    IF i > Len(ms) THEN PFail
    ELSE IF ms[i].k = name THEN POk(i, ms[i].v)
    ELSE MemberFrom(ms, name, i + 1)

\* the member called name of the JSON object obj
MemberOf(obj, name) == IF obj.t = "obj" THEN MemberFrom(obj.a, name, 1) ELSE PFail

ValueCarried(w) ==
    LET doc == JsonParse(SubSeq(w, responseHeaderSize + 1, Len(w)))
        dataMember == IF doc.ok THEN MemberOf(doc.val, fieldData) ELSE PFail
        first == IF dataMember.ok /\ dataMember.val.t = "arr" /\ Len(dataMember.val.a) >= 1
                 THEN MemberOf(dataMember.val.a[1], fieldValue)
                 ELSE PFail
    IN  first

\* the handler's value as the JSON value with exactly its bytes
Exactly(v) ==
    CASE v.t = "nil" -> JNull
      [] v.t = "int" -> JNum(v.i)
      [] v.t = "str" -> JStr(v.s)

(***************************************************************************)
(* C11 as stated: for every integer, string or nil V handed to encode,     *)
(* parsing the payload of the response frame yields exactly V as           *)
(* data[0].value.                                                          *)
(***************************************************************************)
C11_ValueCarriedUnchanged ==
    enc.done => ValueCarried(enc.bytes) = POk(1, Exactly(enc.value))

(***************************************************************************)
(* C11 amended: for every integer, nil, or string of valid UTF-8 handed to *)
(* encode, parsing the payload yields exactly V as data[0].value; a string *)
(* that is not valid UTF-8 is carried with each invalid byte replaced by   *)
(* U+FFFD.                                                                 *)
(***************************************************************************)
C11_ValidValueCarriedUnchanged ==
    enc.done
    => /\ ValueCarried(enc.bytes) = POk(1, JsonOf(enc.value))
       /\ (enc.value.t = "str" /\ ToValidUTF8(enc.value.s) = enc.value.s
           => ValueCarried(enc.bytes) = POk(1, Exactly(enc.value)))

\* a string with a rune outside ASCII, carried unchanged
C11_Witness ==
    /\ enc.done
    /\ enc.value = StrV(textLatin)
    /\ ValueCarried(enc.bytes) = POk(1, JStr(textLatin))

(***************************************************************************)
(* The targets of the file as the claims read them.  Before LoadTargets    *)
(* and after it rejected the file, inner is what the file holds; after it  *)
(* accepted the file, inner is what the polling loops use.                 *)
(***************************************************************************)
Loaded == mainPc \in {"loaded", "monitoring", "serving", "fatal"}
Rejected == mainPc = "start" /\ proc = "exit"

IsGet(v) == v.Method = <<>> \/ ToUpper(v.Method) = methodGet
IsPost(v) == ToUpper(v.Method) = methodPost
HasJson(v) == v.Json # <<>>
HasFormData(v) == ~v.FormData.nil

\* v is the base target but for its method and body fields
OnlyBodyFieldsSet(v) ==
    [v EXCEPT !.Method = <<>>, !.FormData = noFormData, !.Json = <<>>] = baseTarget

(***************************************************************************)
(* C12: a POST target with both json and form-data, or with neither, is    *)
(* rejected at load time (an accepted POST target has exactly one of       *)
(* them); a GET target, named or by default, is not rejected for having    *)
(* either or both; and the request of an accepted GET target has no body.  *)
(***************************************************************************)
C12_BodyFieldsValidated ==
    \A t \in TargetNames :
        /\ Loaded /\ IsPost(inner[t]) => HasJson(inner[t]) # HasFormData(inner[t])
        /\ /\ Rejected
           /\ OnlyBodyFieldsSet(inner[t])
           /\ \A u \in TargetNames \ {t} : inner[u] = baseTarget
           => ~IsGet(inner[t])
        /\ pc[t] \in {"inflight", "sleep"} /\ IsGet(inner[t]) => hist[t].body = noBody

\* a GET target with json and form-data, accepted and probed
C12_Witness ==
    \E t \in TargetNames :
        /\ Loaded
        /\ IsGet(inner[t])
        /\ HasJson(inner[t])
        /\ HasFormData(inner[t])
        /\ pc[t] = "inflight"
        /\ hist[t].body = noBody

(***************************************************************************)
(* C13: every target that passed the validation has an interval above 0,   *)
(* and no polling loop waits 0 or less between two cycles.                 *)
(***************************************************************************)
C13_PositiveInterval ==
    \A t \in TargetNames :
        /\ Loaded => inner[t].Interval > 0
        /\ hist[t].slept => hist[t].wait > 0

(***************************************************************************)
(* C14: a target that passed the validation with an authorization field    *)
(* set has a type, and either a token without username and password, or a  *)
(* username and a password without token.                                  *)
(***************************************************************************)
C14_AuthorizationValidated ==
    \A t \in TargetNames :
        LET auth == inner[t].Authorization IN
        Loaded /\ auth # authorization
        => /\ auth.Type # <<>>
           /\ \/ auth.Token # <<>> /\ auth.Username = <<>> /\ auth.Password = <<>>
              \/ auth.Token = <<>> /\ auth.Username # <<>> /\ auth.Password # <<>>

\* a target with a type, a username and a password, accepted
C14_Witness ==
    \E t \in TargetNames :
        /\ Loaded
        /\ inner[t].Authorization =
               [Type |-> typeBasic, Username |-> textUser, Password |-> textPassword,
                Token |-> <<>>]

(***************************************************************************)
(* C15: when the targets file is unreadable or one target fails the        *)
(* validation, no polling loop is started, no probe is issued, the         *)
(* listener is not opened and no connection is accepted, also for the      *)
(* targets that are valid.                                                 *)
(***************************************************************************)
NothingStarted ==
    /\ ~Loaded
    /\ data = <<>>
    /\ \A t \in TargetNames : pc[t] = "none" /\ hist[t] = NoHist
    /\ \A c \in ConnIds : conn[c] = NoConn

C15_FailFast ==
    \/ mainPc \in {"nofile", "notyaml"}
    \/ \E t \in TargetNames : checkTarget(inner[t]).err
    => NothingStarted

\* the process ended on one rejected target, the other one being valid
C15_Witness ==
    /\ Rejected
    /\ \E t, u \in TargetNames : checkTarget(inner[t]).err /\ ~checkTarget(inner[u]).err
    /\ NothingStarted

(***************************************************************************)
(* C16: the first failure of l.Accept after an accepted connection sleeps  *)
(* 5ms, whatever failures preceded that connection.                        *)
(***************************************************************************)
Accepted == \E c \in ConnIds : conn[c].st # "none"

C16_BackoffResetAfterAccept ==
    srv.ret = "none" /\ srv.streak = 1 /\ Accepted => srv.slept = 5 * Millisecond

(***************************************************************************)
(* C17: the k-th failure of l.Accept in a row sleeps min(5ms * 2^(k-1),    *)
(* 1s), at least 5ms and at most 1s; on net.ErrClosed ListenAndServe       *)
(* returns the error without a sleep.                                      *)
(***************************************************************************)
RECURSIVE Backoff(_)
Backoff(k) ==
    IF k = 1 THEN 5 * Millisecond
    ELSE IF 2 * Backoff(k - 1) > Second THEN Second ELSE 2 * Backoff(k - 1)

C17_BackoffOfStreak ==
    /\ srv.ret = "none" /\ srv.streak >= 1
       => /\ srv.slept = Backoff(srv.streak)
          /\ srv.slept >= 5 * Millisecond
          /\ srv.slept <= Second
    /\ srv.ret = "closed" => srv.slept = 0 /\ mainPc = "fatal" /\ proc = "exit"

(***************************************************************************)
(* C18: on a whole frame decode consumes the 13 bytes of the header and    *)
(* the L bytes of the payload, L being the little-endian value of bytes    *)
(* 5..8, and the request it returns is the one parsed from bytes           *)
(* 13..13+L-1 of the frame.                                                *)
(***************************************************************************)
C18_DecodeReadsFrame ==
    LET s == Frames[dec.frame] IN
    dec.done /\ WholeFrame(s)
    => /\ dec.pos = headerSize + LengthOf(s)
       /\ dec.err = jsonUnmarshal(PayloadOf(s)).err
       /\ ~dec.err => dec.req = jsonUnmarshal(PayloadOf(s))

(***************************************************************************)
(* C19: a target's record has Running = TRUE exactly while its loop is     *)
(* between issuing a request and recording its outcome; Start is the time  *)
(* the last request was issued at, and once a probe completed              *)
(* LastResponseTime is its completion time minus that Start, never         *)
(* negative.                                                               *)
(***************************************************************************)
C19_RecordFollowsLoop ==
    \A t \in TargetNames :
        LET d == GetData(data, t).data IN
        /\ d.Running <=> pc[t] = "inflight"
        /\ pc[t] = "inflight" \/ hist[t].completed => d.Start = hist[t].dispatched
        /\ hist[t].completed
           => d.LastResponseTime = hist[t].took /\ d.LastResponseTime >= 0

\* a second probe in flight, issued after the clock moved, the first one
\* having taken some time
C19_Witness ==
    \E t \in TargetNames :
        /\ pc[t] = "inflight"
        /\ hist[t].completed
        /\ hist[t].took > 0
        /\ GetData(data, t).data.Running
        /\ GetData(data, t).data.Start = MaxTime
        /\ GetData(data, t).data.LastResponseTime = Tick

(***************************************************************************)
(* C20: on every accepted connection handleConn calls the dispatch         *)
(* function at most once, with the key of the first data element, writes   *)
(* at most one response frame, and has closed the connection when it       *)
(* returns, whichever way it returns.                                      *)
(***************************************************************************)
C20_OneCallOneFrameClosed ==
    \A c \in ConnIds :
        /\ conn[c].out # "" => conn[c].st = "closed"
        /\ conn[c].calls <= 1
        /\ conn[c].calls = 1
           => \E r \in decodeResults[conn[c].frame] :
                  /\ ~r.err
                  /\ Len(r.req.Data) >= 1
                  /\ conn[c].key = r.req.Data[1].Key
        /\ \/ conn[c].written = <<>>
           \/ conn[c].calls = 1 /\ WellFormedResponse(conn[c].written)
        /\ conn[c].out \in {"decode error", "panic"}
           => conn[c].calls = 0 /\ conn[c].written = <<>>

\* one connection closed after decode's error, another one by the deferred
\* conn.Close of a handleConn that panicked
C20_Witness ==
    \E c, b \in ConnIds :
        /\ conn[c].st = "closed" /\ conn[c].out = "decode error"
        /\ conn[b].st = "closed" /\ conn[b].out = "panic"

(***************************************************************************)
(* C21: while the handler of a connection is blocked in its first Read     *)
(* (the client sent nothing), the accept loop can accept the next          *)
(* connection and every other accepted connection can run its handleConn   *)
(* to its end.                                                             *)
(***************************************************************************)
BlockedInRead(c) == conn[c].st = "accepted"

\* c is the connection l.Accept returns next
NextToAccept(c) == conn[c].st = "none" /\ \A b \in ConnIds : b < c => conn[b].st # "none"

C21_BlockedReadStallsNoOne ==
    \A b \in ConnIds :
        proc = "running" /\ BlockedInRead(b)
        => /\ \A c \in ConnIds : NextToAccept(c) => ENABLED Accept(c)
           /\ \A c \in ConnIds \ {b} : conn[c].st = "accepted" => ENABLED HandleConn(c)

\* the second connection was accepted and handled to its end while the
\* handler of the first one still waits for bytes
C21_Witness ==
    /\ proc = "running"
    /\ BlockedInRead(1)
    /\ conn[2].st = "closed"

(***************************************************************************)
(* C22: while a probe is in flight every query can be answered at once,    *)
(* for the probed target and for any other one, and a statusCode or status *)
(* query of the probed target returns what its last stored record holds;   *)
(* while a handler waits for bytes, every polling loop can take its next   *)
(* step.                                                                   *)
(***************************************************************************)
C22_NoWaitBetweenQueriesAndProbes ==
    /\ \A t \in TargetNames :
          proc = "running" /\ mainPc = "serving" /\ pc[t] = "inflight"
          => \A key \in Keys : ENABLED Answer(key, 0)
    /\ \A t \in TargetNames :
          pc[t] = "inflight"
          => LET last == IF hist[t].completed /\ hist[t].last.res
                         THEN hist[t].last ELSE NoResponse
             IN  /\ Asked(t, paramStatusCode) => q.value = IntV(last.StatusCode)
                 /\ Asked(t, paramStatus) => q.value = StrV(last.Status)
    /\ \A c \in ConnIds, t \in TargetNames :
          proc = "running" /\ BlockedInRead(c)
          => /\ pc[t] = "build" => ENABLED Dispatch(t)
             /\ pc[t] = "inflight" => ENABLED Complete(t)
             /\ pc[t] = "sleep" => ENABLED Sleep(t)

\* a handler waits, the second probe of a target is in flight, and a query
\* for its status code is answered with the code of its first probe
C22_Witness ==
    \E t \in TargetNames :
        /\ BlockedInRead(1)
        /\ pc[t] = "inflight"
        /\ hist[t].completed
        /\ hist[t].last = Response(200, Status200)
        /\ Asked(t, paramStatusCode)
        /\ q.value = IntV(200)

(***************************************************************************)
(* C23: the entry of a target changes only in a step of that target's own  *)
(* loop (or when StartMonitoring creates it); a step of one loop leaves    *)
(* every other entry as it is, and a query writes nothing to the store.    *)
(***************************************************************************)
C23_EntryWrittenByOwnLoop ==
    [][/\ \A t \in TargetNames :
            GetData(data', t) # GetData(data, t) => pc'[t] # pc[t]
       /\ \A t \in TargetNames :
            pc'[t] # pc[t]
            => \A u \in TargetNames \ {t} : GetData(data', u) = GetData(data, u)
       /\ q'.asked => data' = data]_vars

\* the probe of one target is in flight while the entry of another one
\* holds the outcome its own loop recorded, and a query was just answered
C23_Witness ==
    \E t, u \in TargetNames :
        /\ pc[t] = "inflight"
        /\ GetData(data, t).data.Running
        /\ hist[u].completed
        /\ hist[u].last = Response(200, Status200)
        /\ GetData(data, u).data.LastStatusCode = 200
        /\ ~GetData(data, u).data.Running
        /\ q.asked

(***************************************************************************)
(* C24: what GetData returns for a target is, in its five fields, the      *)
(* record its loop stored last: the zero record, the record of the probe   *)
(* in flight (the previous outcome, Running, the new Start) or the record  *)
(* of the last outcome; a query answers from that one record.              *)
(***************************************************************************)
LastStored(t) ==
    [Start |-> hist[t].dispatched,
     Running |-> pc[t] = "inflight",
     LastResponseTime |-> hist[t].took,
     LastStatus |-> IF hist[t].last.res THEN hist[t].last.Status ELSE <<>>,
     LastStatusCode |-> IF hist[t].last.res THEN hist[t].last.StatusCode ELSE 0]

C24_SnapshotIsOneStoredRecord ==
    \A t \in TargetNames :
        GetData(data, t).ok
        => /\ GetData(data, t).data = LastStored(t)
           /\ Asked(t, paramStatusCode) => q.value = IntV(LastStored(t).LastStatusCode)
           /\ Asked(t, paramStatus) => q.value = StrV(LastStored(t).LastStatus)
           /\ Asked(t, paramResponseTime) /\ pc[t] # "inflight"
              => q.value = IntV(Milliseconds(LastStored(t).LastResponseTime))

\* a probe that took a millisecond and failed, after one that had obtained
\* a response at once: the record read holds the new duration and the zero
\* status together
C24_Witness ==
    \E t \in TargetNames :
        /\ hist[t].ok
        /\ hist[t].last = NoResponse
        /\ pc[t] = "sleep"
        /\ GetData(data, t).data =
               [Start |-> 0, Running |-> FALSE, LastResponseTime |-> Millisecond,
                LastStatus |-> <<>>, LastStatusCode |-> 0]
        /\ Asked(t, paramResponseTime)
        /\ q.value = IntV(1)

(***************************************************************************)
(* C25: the key is split at its last "." only: a key made of a configured  *)
(* target name, a "." and a parameter is answered from that target's       *)
(* record, also when the name holds dots ("api.v1.status"), and a key that *)
(* is a configured target name is never answered from that target.         *)
(***************************************************************************)
\* what parameter param of the record d is, d not being in flight
ParamOf(d, param) ==
    CASE param = paramResponseTime -> IntV(Milliseconds(d.LastResponseTime))
      [] param = paramStatusCode -> IntV(d.LastStatusCode)
      [] param = paramStatus -> StrV(d.LastStatus)

Params == {paramResponseTime, paramStatusCode, paramStatus}

C25_SplitAtLastDot ==
    q.asked
    => \A n \in DOMAIN data :
           /\ \A param \in Params :
                 q.key = ItemKey(n, param) => q.value = ParamOf(data[n], param)
           /\ q.key = n => \A param \in Params : q.value # ParamOf(data[n], param)

\* "api" and "api.v1" are configured and "api.v1.status" is answered with
\* the status of "api.v1"
C25_Witness ==
    /\ {nameApi, nameApiV1} \subseteq DOMAIN data
    /\ q.asked
    /\ q.key = ItemKey(nameApiV1, paramStatus)
    /\ q.value = StrV(recordOf(nameApiV1).LastStatus)

(***************************************************************************)
(* C26: for targets that load-time validation accepted, whatever non-empty *)
(* url they hold, building the request ends neither the loop nor the       *)
(* process: every loop that began a cycle goes on to its probe.            *)
(***************************************************************************)
C26_ValidatedTargetIsProbed ==
    Loaded => /\ proc # "panic"
              /\ \A t \in TargetNames : inner[t].Url # <<>>

=============================================================================
